---- MODULE Spec2Model ----
(***************************************************************************)
(* Model of the endpoint extractor of openapi-spec-parser                  *)
(* (src/src/core/extractor.ts): extractEndpoints and the schema helpers    *)
(* extractSchemaName, resolveRef and getEffectiveSchema.                   *)
(*                                                                         *)
(* JavaScript values are modelled as follows.                              *)
(*   - an object is a function whose domain is the set of its keys; a key  *)
(*     that is not in the domain is an absent (undefined) member;          *)
(*   - an array is a sequence;                                             *)
(*   - a string the code takes apart (a $ref, a schema name, a path, a     *)
(*     content type) is a sequence of one-character strings; a string the  *)
(*     code only compares (a type label, a tag, a status code, a method)   *)
(*     is a TLA+ string;                                                   *)
(*   - the key "$ref" is written ref, since $ is not a TLA+ field name.    *)
(***************************************************************************)
EXTENDS Integers, Sequences, FiniteSets, TLC

VARIABLES
    spec,           \* the dereferenced document handed to extractEndpoints
    options,        \* the ExtractorOptions handed to extractEndpoints
    pc,             \* position of the call: "loop" | "done" | "schema" | "resolve"
                    \* | "simplify" | "simplifying"
    pathIdx,        \* index of the path entry the outer loop is at
    methodIdx,      \* index into HTTP_METHODS the inner loop is at
    endpoints,      \* the endpoints array built so far
    schema,         \* the schema node handed to the schema helpers
    originalSchema, \* its counterpart in the original document, or Undefined
    returned,       \* the values the schema helpers returned, by helper name
    stack           \* the calls of simplifySchema in progress, outermost first

vars ==
    <<spec, options, pc, pathIdx, methodIdx, endpoints, schema, originalSchema, returned,
      stack>>

----------------------------------------------------------------------------
(* Bounds of the model.                                                    *)

MaxPaths == 2        \* path entries of a document
MaxBranches == 2     \* branches of one allOf / anyOf / oneOf array
MaxNesting == 2      \* arrays nested inside arrays in a schema node
MaxTags == 2         \* tags of one operation
MaxContentTypes == 2 \* content types of one request body
MaxCodes == 2        \* status codes of one response table
MaxCallDepth == 5    \* calls of simplifySchema nested in one another

----------------------------------------------------------------------------
(* JavaScript values.                                                      *)

\* undefined, where a schema node or a document is expected
Undefined == [undefined |-> TRUE]

\* the empty object {}
EmptyObject == [k \in {} |-> TRUE]

\* undefined, where a string is expected (distinct from the empty string <<>>)
NoName == <<"undefined">>

\* obj.key is present
Has(obj, key) == key \in DOMAIN obj

\* JavaScript truthiness of a string-or-undefined value
Truthy(str) == str # NoName /\ str # <<>>

\* a ?? b on string-or-undefined values
Coalesce_second(a, b) == b
Coalesce(a, b) == IF a # NoName THEN a ELSE b

\* const v = value; Body(v): the value is computed once and then named
Const(value, Body(_)) == CHOOSE result \in {Body(v) : v \in {value}} : TRUE

\* { ...a, ...b }
Spread(a, b) ==
    [k \in (DOMAIN a) \cup (DOMAIN b) |-> IF k \in DOMAIN b THEN b[k] ELSE a[k]]

\* array.includes(x)
Includes(array, x) == \E i \in 1..Len(array) : array[i] = x

\* the i-th smallest member of a set of numbers
Nth(S, i) == CHOOSE n \in S : Cardinality({m \in S : m < n}) = i - 1

\* Array.from(new Set(array)): first occurrences, in order
Dedupe(array) ==
    LET firsts == {i \in 1..Len(array) : \A j \in 1..(i - 1) : array[j] # array[i]}
    IN  [k \in 1..Cardinality(firsts) |-> array[Nth(firsts, k)]]

\* str.split('/'): the segments between the slashes, at least one
Split(str) ==
    LET cuts == {0} \cup {i \in 1..Len(str) : str[i] = "/"} \cup {Len(str) + 1}
    IN  [k \in 1..(Cardinality(cuts) - 1) |->
            SubSeq(str, Nth(cuts, k) + 1, Nth(cuts, k + 1) - 1)]

\* str.startsWith(prefix)
StartsWith(str, prefix) ==
    Len(str) >= Len(prefix) /\ SubSeq(str, 1, Len(prefix)) = prefix

\* str.endsWith(suffix)
EndsWith(str, suffix) ==
    Len(str) >= Len(suffix)
    /\ SubSeq(str, Len(str) - Len(suffix) + 1, Len(str)) = suffix

\* the characters of an object key; a one-letter key spells itself
Chars(key) ==
    CASE key = "definitions" -> <<"d", "e", "f", "i", "n", "i", "t", "i", "o", "n", "s">>
      [] key = "properties" -> <<"p", "r", "o", "p", "e", "r", "t", "i", "e", "s">>
      [] key = "items" -> <<"i", "t", "e", "m", "s">>
      [] key = "type" -> <<"t", "y", "p", "e">>
      [] key = "Pet" -> <<"P", "e", "t">>
      [] key = "Owner" -> <<"O", "w", "n", "e", "r">>
      [] OTHER -> <<key>>

\* keys whose value is a string, not an object
ScalarKeys == {"type", "ref", "description"}

----------------------------------------------------------------------------
(* extractSchemaName                                                       *)

ArrayMarker == <<"[", "]">>

\* the branches of allOf, anyOf and oneOf in the order the loop visits them
CompositeBranches_oneOfFirst(node) ==
    (IF Has(node, "oneOf") THEN node.oneOf ELSE <<>>)
    \o (IF Has(node, "anyOf") THEN node.anyOf ELSE <<>>)
    \o (IF Has(node, "allOf") THEN node.allOf ELSE <<>>)
CompositeBranches(node) ==
    (IF Has(node, "allOf") THEN node.allOf ELSE <<>>)
    \o (IF Has(node, "anyOf") THEN node.anyOf ELSE <<>>)
    \o (IF Has(node, "oneOf") THEN node.oneOf ELSE <<>>)

\* rule 1: the last part of the reference string split at '/'
RefName_firstPart(ref) == LET parts == Split(ref) IN parts[1]
RefName(ref) == LET parts == Split(ref) IN parts[Len(parts)]

\* rule 3: the item name with the array marker, not appended twice
WithArrayMarker_always(itemName) == itemName \o ArrayMarker
WithArrayMarker(itemName) ==
    IF EndsWith(itemName, ArrayMarker) THEN itemName ELSE itemName \o ArrayMarker

RECURSIVE extractSchemaName(_)
extractSchemaName(node) ==
    IF node = Undefined THEN NoName
    ELSE IF Has(node, "ref") /\ node.ref # <<>>
    THEN RefName(node.ref)
    ELSE Const(CompositeBranches(node), LAMBDA branches :
         Const([i \in 1..Len(branches) |-> extractSchemaName(branches[i])], LAMBDA found :
             LET hits == {i \in 1..Len(branches) : Truthy(found[i])}
             IN  IF hits # {}
                 THEN found[CHOOSE i \in hits : \A j \in hits : i <= j]
                 ELSE IF Has(node, "type") /\ node.type = "array" /\ Has(node, "items")
                 THEN Const(extractSchemaName(node.items), LAMBDA itemName :
                          IF Truthy(itemName) THEN WithArrayMarker(itemName) ELSE NoName)
                 ELSE NoName))

----------------------------------------------------------------------------
(* resolveRef                                                              *)

\* current[part] for an object current: the member whose key spells part
Member(current, part) ==
    IF \E k \in DOMAIN current : Chars(k) = part
    THEN LET k == CHOOSE key \in DOMAIN current : Chars(key) = part
         IN  [defined |-> TRUE, object |-> k \notin ScalarKeys, value |-> current[k]]
    ELSE [defined |-> FALSE, object |-> FALSE, value |-> Undefined]

\* the loop over the pointer's parts; failed is the early return inside it
RECURSIVE WalkPointer(_, _)
WalkPointer(current, parts) ==
    IF parts = <<>> THEN [failed |-> FALSE] @@ current
    ELSE IF current.defined /\ current.object
    THEN Const(Member(current.value, Head(parts)), LAMBDA next :
             WalkPointer(next, Tail(parts)))
    ELSE [failed |-> TRUE] @@ current

\* a string reached by the pointer: none of the members the code reads
\* from a node is defined on it
Scalar(value) == [scalar |-> value]

RECURSIVE resolveRef(_, _)
resolveRef(node, document) ==
    IF node = Undefined \/ document = Undefined \/ ~Has(node, "ref") THEN node
    ELSE IF ~StartsWith(node.ref, <<"#", "/">>) THEN node
    ELSE Const(WalkPointer([defined |-> TRUE, object |-> TRUE, value |-> document],
                           Tail(Split(node.ref))), LAMBDA reached :
             IF reached.failed \/ ~reached.defined THEN node
             ELSE IF reached.object THEN resolveRef(reached.value, document)
             ELSE Scalar(reached.value))

----------------------------------------------------------------------------
(* getEffectiveSchema                                                      *)

\* the accumulator before the allOf loop
OwnEffective_reversedRequired(resolved) ==
    [properties |-> IF Has(resolved, "properties") THEN resolved.properties ELSE EmptyObject,
     required |-> IF Has(resolved, "required")
                  THEN [i \in 1..Len(resolved.required) |->
                           resolved.required[Len(resolved.required) + 1 - i]]
                  ELSE <<>>]
    @@ [k \in {"type", "enum", "items"} \cap DOMAIN resolved |-> resolved[k]]
OwnEffective(resolved) ==
    [properties |-> IF Has(resolved, "properties") THEN resolved.properties ELSE EmptyObject,
     required |-> IF Has(resolved, "required") THEN resolved.required ELSE <<>>]
    @@ [k \in {"type", "enum", "items"} \cap DOMAIN resolved |-> resolved[k]]

\* one pass of the allOf loop body: result merged with a flattened branch
MergeBranch_lastWriter(result, subEffective) ==
    [properties |-> Spread(result.properties,
                       IF Has(subEffective, "properties") THEN subEffective.properties
                       ELSE EmptyObject),
     required |-> IF Has(subEffective, "required")
                  THEN Dedupe(result.required \o subEffective.required)
                  ELSE result.required]
    @@ [k \in {"type", "enum", "items"} \cap DOMAIN subEffective |-> subEffective[k]]
    @@ [k \in {"type", "enum", "items"} \cap DOMAIN result |-> result[k]]
MergeBranch(result, subEffective) ==
    [properties |-> Spread(result.properties,
                       IF Has(subEffective, "properties") THEN subEffective.properties
                       ELSE EmptyObject),
     required |-> IF Has(subEffective, "required")
                  THEN Dedupe(result.required \o subEffective.required)
                  ELSE result.required]
    @@ [k \in {"type", "enum", "items"} \cap DOMAIN result |-> result[k]]
    @@ [k \in {"type", "enum", "items"} \cap DOMAIN subEffective |-> subEffective[k]]

RECURSIVE MergeBranches(_, _)
MergeBranches(result, subEffectives) ==
    IF subEffectives = <<>> THEN result
    ELSE Const(MergeBranch(result, Head(subEffectives)), LAMBDA merged :
             MergeBranches(merged, Tail(subEffectives)))

RECURSIVE getEffectiveSchema(_, _)
getEffectiveSchema(node, document) ==
    IF node = Undefined THEN EmptyObject
    ELSE Const(resolveRef(node, document), LAMBDA resolved :
         Const(IF Has(resolved, "allOf") THEN resolved.allOf ELSE <<>>, LAMBDA branches :
         Const([i \in 1..Len(branches) |-> getEffectiveSchema(branches[i], document)],
               LAMBDA subEffectives :
             Const(OwnEffective(resolved), LAMBDA result :
                 MergeBranches(result, subEffectives)))))

----------------------------------------------------------------------------
(* simplifySchema                                                          *)

\* a.key ?? b?.key, as an object holding key when either side has it
FirstOf(key, a, b) ==
    IF Has(a, key) THEN [k \in {key} |-> a[key]]
    ELSE IF b # Undefined /\ Has(b, key) THEN [k \in {key} |-> b[key]]
    ELSE EmptyObject

\* obj with member key set to name, or without it when name is undefined
WithName(key, name) == IF name = NoName THEN EmptyObject ELSE [k \in {key} |-> name]

RECURSIVE simplifySchema(_, _, _, _)
simplifySchema(node, original, name, originalSpec) ==
    IF node = Undefined THEN [type |-> "unknown"]
    ELSE Const(getEffectiveSchema(node, originalSpec), LAMBDA eff :
         Const(IF original # Undefined THEN getEffectiveSchema(original, originalSpec)
               ELSE Undefined, LAMBDA effectiveOriginal :
             LET resolvedName ==
                     Coalesce(name,
                         Coalesce(extractSchemaName(original), extractSchemaName(node)))
                 type == IF Has(eff, "type") THEN eff.type
                         ELSE IF DOMAIN eff.properties # {} THEN "object" ELSE "unknown"
                 originalProp(key) ==
                     IF effectiveOriginal # Undefined
                        /\ Has(effectiveOriginal.properties, key)
                     THEN effectiveOriginal.properties[key]
                     ELSE Undefined
                 items == IF Has(eff, "items") THEN eff.items
                          ELSE IF Has(node, "items") THEN node.items ELSE Undefined
                 originalItems ==
                     IF effectiveOriginal # Undefined /\ Has(effectiveOriginal, "items")
                     THEN effectiveOriginal.items
                     ELSE IF original # Undefined /\ Has(original, "items")
                     THEN original.items
                     ELSE Undefined
             IN  [type |-> type,
                  required |-> eff.required,
                  properties |->
                      [key \in DOMAIN eff.properties |->
                          simplifySchema(eff.properties[key], originalProp(key),
                              Coalesce(extractSchemaName(originalProp(key)),
                                       extractSchemaName(eff.properties[key])),
                              originalSpec)]]
                 @@ WithName("schemaName", resolvedName)
                 @@ FirstOf("description", node, original)
                 @@ FirstOf("example", node, original)
                 @@ [k \in {"enum"} \cap DOMAIN eff |-> eff[k]]
                 @@ (IF type = "array" /\ items # Undefined
                     THEN [k \in {"items"} |->
                              simplifySchema(items, originalItems,
                                  Coalesce(extractSchemaName(originalItems),
                                           extractSchemaName(items)),
                                  originalSpec)]
                     ELSE EmptyObject)))

----------------------------------------------------------------------------
(* Objects whose key order the code reads (paths, content) are sequences   *)
(* of [key, value] entries in document order, with distinct keys.          *)

\* Object.keys(entries)
Keys(entries) == [i \in 1..Len(entries) |-> entries[i].key]

\* entries[key] is present
HasKey(entries, key) == \E i \in 1..Len(entries) : entries[i].key = key

\* entries[key]
Get(entries, key) == entries[CHOOSE i \in 1..Len(entries) : entries[i].key = key].value

----------------------------------------------------------------------------
(* generateOperationId                                                     *)

UpperCase ==
    [a |-> "A", b |-> "B", c |-> "C", d |-> "D", e |-> "E", g |-> "G", h |-> "H",
     i |-> "I", l |-> "L", n |-> "N", o |-> "O", p |-> "P", s |-> "S", t |-> "T",
     u |-> "U"]

\* str.toUpperCase()
ToUpperCase(str) ==
    [i \in 1..Len(str) |-> IF str[i] \in DOMAIN UpperCase THEN UpperCase[str[i]] ELSE str[i]]

\* the characters of an HTTP method name
MethodChars(method) ==
    CASE method = "get" -> <<"g", "e", "t">>
      [] method = "post" -> <<"p", "o", "s", "t">>
      [] method = "put" -> <<"p", "u", "t">>
      [] method = "patch" -> <<"p", "a", "t", "c", "h">>
      [] method = "delete" -> <<"d", "e", "l", "e", "t", "e">>
      [] method = "options" -> <<"o", "p", "t", "i", "o", "n", "s">>
      [] method = "head" -> <<"h", "e", "a", "d">>

\* str.replace(/[{}]/g, '')
RemoveBraces_onlyOpening(str) == SelectSeq(str, LAMBDA ch : ch # "{")
RemoveBraces(str) == SelectSeq(str, LAMBDA ch : ch \notin {"{", "}"})

\* str.replace(/\//g, '_')
SlashesToUnderscores(str) == [i \in 1..Len(str) |-> IF str[i] = "/" THEN "_" ELSE str[i]]

\* str.replace(/^_/, '')
DropLeadingUnderscore(str) == IF str # <<>> /\ Head(str) = "_" THEN Tail(str) ELSE str

generateOperationId(method, path) ==
    LET cleanPath == ToUpperCase(DropLeadingUnderscore(SlashesToUnderscores(RemoveBraces(path))))
    IN  ToUpperCase(MethodChars(method)) \o <<"_">> \o cleanPath

----------------------------------------------------------------------------
(* Parameters                                                              *)

\* JSON.stringify(v) of a string value: the value between double quotes
JSONStringify(v) == <<"\"", v, "\"">>

\* array.map(JSON.stringify).join(' | ')
RECURSIVE JoinStringified(_)
JoinStringified(array) ==
    IF array = <<>> THEN <<>>
    ELSE IF Len(array) = 1 THEN JSONStringify(array[1])
    ELSE JSONStringify(array[1]) \o <<" | ">> \o JoinStringified(Tail(array))

\* a type label is the sequence of the pieces the code concatenates
RECURSIVE getSchemaType(_)
getSchemaType(node) ==
    IF node = Undefined THEN <<"unknown">>
    ELSE IF Has(node, "type") /\ node.type = "array" /\ Has(node, "items")
    THEN getSchemaType(node.items) \o <<"[]">>
    ELSE IF Has(node, "enum")
    THEN JoinStringified(node.enum)
    ELSE IF Has(node, "type") THEN <<node.type>> ELSE <<"object">>

extractParameter(param) ==
    LET paramSchema == IF Has(param, "schema") THEN param.schema ELSE Undefined
    IN  [name |-> param.name,
         in |-> param.in,
         required |-> IF Has(param, "required") THEN param.required ELSE FALSE,
         type |-> getSchemaType(paramSchema)]
        @@ [k \in {"description"} \cap DOMAIN param |-> param[k]]
        @@ (IF Has(param, "example") THEN [example |-> param.example]
            ELSE IF paramSchema # Undefined /\ Has(paramSchema, "example")
            THEN [example |-> paramSchema.example]
            ELSE EmptyObject)

\* array.find(p => p.in === 'body'), Undefined when there is none
FindBodyParam(params) ==
    IF \E i \in 1..Len(params) : params[i].in = "body"
    THEN params[CHOOSE i \in 1..Len(params) :
                    params[i].in = "body" /\ \A j \in 1..(i - 1) : params[j].in # "body"]
    ELSE Undefined

extractAllParameters_operationFirst(operation, pathItem) ==
    Const((IF Has(operation, "parameters") THEN operation.parameters ELSE <<>>)
          \o (IF Has(pathItem, "parameters") THEN pathItem.parameters ELSE <<>>),
          LAMBDA allParams :
        Const(SelectSeq(allParams, LAMBDA p : p.in # "body"), LAMBDA nonBodyParams :
            [parameters |->
                 [i \in 1..Len(nonBodyParams) |-> extractParameter(nonBodyParams[i])],
             bodyParam |-> FindBodyParam(allParams)]))
extractAllParameters(operation, pathItem) ==
    Const((IF Has(pathItem, "parameters") THEN pathItem.parameters ELSE <<>>)
          \o (IF Has(operation, "parameters") THEN operation.parameters ELSE <<>>),
          LAMBDA allParams :
        Const(SelectSeq(allParams, LAMBDA p : p.in # "body"), LAMBDA nonBodyParams :
            [parameters |->
                 [i \in 1..Len(nonBodyParams) |-> extractParameter(nonBodyParams[i])],
             bodyParam |-> FindBodyParam(allParams)]))

----------------------------------------------------------------------------
(* Request body                                                            *)

JSON == "application/json"

\* node.key, or Undefined when node or the key is absent
Opt(node, key) == IF node # Undefined /\ Has(node, key) THEN node[key] ELSE Undefined

\* mediaType?.example ?? rawSchema?.example
ExampleOf(first, second) ==
    IF first # Undefined /\ Has(first, "example") THEN [example |-> first.example]
    ELSE IF second # Undefined /\ Has(second, "example") THEN [example |-> second.example]
    ELSE EmptyObject

\* the contentType chosen by extractRequestBody; "" stands for undefined
ChooseContentType_first(content) ==
    IF Keys(content) # <<>> THEN Keys(content)[1] ELSE ""
ChooseContentType(content) ==
    IF HasKey(content, JSON) THEN JSON
    ELSE IF Keys(content) # <<>> THEN Keys(content)[1] ELSE ""

\* the record built from a schema, its original and the name recovered for it
BodyRecord(required, contentType, rawSchema, originalNode, example, originalSpec) ==
    Const(Coalesce(extractSchemaName(originalNode), extractSchemaName(rawSchema)),
          LAMBDA name :
        [required |-> required,
         contentType |-> contentType,
         schema |-> simplifySchema(rawSchema, originalNode, name, originalSpec)]
        @@ WithName("schemaName", name)
        @@ example)

extractRequestBody(body, originalBody, originalSpec) ==
    IF ~Has(body, "content") THEN Undefined
    ELSE Const(ChooseContentType(body.content), LAMBDA contentType :
         IF contentType = "" THEN Undefined
         ELSE Const(Get(body.content, contentType), LAMBDA mediaType :
              Const(IF originalBody # Undefined /\ Has(originalBody, "content")
                       /\ HasKey(originalBody.content, contentType)
                    THEN Get(originalBody.content, contentType)
                    ELSE Undefined, LAMBDA originalMediaType :
                  BodyRecord(IF Has(body, "required") THEN body.required ELSE FALSE,
                      contentType, Opt(mediaType, "schema"),
                      Opt(originalMediaType, "schema"),
                      ExampleOf(mediaType, Opt(mediaType, "schema")), originalSpec))))

extractSwagger2BodyParam(bodyParam, originalBodyParam, originalSpec) ==
    IF ~Has(bodyParam, "schema") THEN Undefined
    ELSE BodyRecord(IF Has(bodyParam, "required") THEN bodyParam.required ELSE FALSE,
             JSON, bodyParam.schema, Opt(originalBodyParam, "schema"),
             ExampleOf(bodyParam.schema, Undefined), originalSpec)

\* originalOperation?.requestBody, resolved when it is a reference
OriginalRequestBody(originalOperation, originalSpec) ==
    Const(Opt(originalOperation, "requestBody"), LAMBDA declared :
        IF declared # Undefined /\ Has(declared, "ref")
        THEN resolveRef(declared, originalSpec)
        ELSE declared)

\* originalOperation?.parameters?.find(p => p.in === 'body')
OriginalBodyParam(originalOperation) ==
    IF originalOperation # Undefined /\ Has(originalOperation, "parameters")
    THEN FindBodyParam(originalOperation.parameters)
    ELSE Undefined

extractEndpointRequestBody_paramFirst(operation, bodyParam, originalOperation, originalSpec) ==
    IF bodyParam # Undefined
    THEN Const(OriginalBodyParam(originalOperation), LAMBDA originalBodyParam :
             extractSwagger2BodyParam(bodyParam, originalBodyParam, originalSpec))
    ELSE IF Has(operation, "requestBody")
    THEN Const(OriginalRequestBody(originalOperation, originalSpec),
               LAMBDA originalRequestBody :
             extractRequestBody(operation.requestBody, originalRequestBody, originalSpec))
    ELSE Undefined
extractEndpointRequestBody(operation, bodyParam, originalOperation, originalSpec) ==
    IF Has(operation, "requestBody")
    THEN Const(OriginalRequestBody(originalOperation, originalSpec),
               LAMBDA originalRequestBody :
             extractRequestBody(operation.requestBody, originalRequestBody, originalSpec))
    ELSE IF bodyParam # Undefined
    THEN Const(OriginalBodyParam(originalOperation), LAMBDA originalBodyParam :
             extractSwagger2BodyParam(bodyParam, originalBodyParam, originalSpec))
    ELSE Undefined

----------------------------------------------------------------------------
(* Responses                                                               *)

importantCodes_with302 == <<"200", "201", "204", "302", "400", "401", "403", "404", "500">>
importantCodes == <<"200", "201", "204", "400", "401", "403", "404", "500">>

\* response.content?.['application/json']
JSONContent(response) ==
    IF response # Undefined /\ Has(response, "content") /\ HasKey(response.content, JSON)
    THEN Get(response.content, JSON)
    ELSE Undefined

\* content?.schema ?? response.schema
ResponseSchema(response) ==
    Const(JSONContent(response), LAMBDA content :
        IF Opt(content, "schema") # Undefined THEN content.schema
        ELSE Opt(response, "schema"))

\* the entry pushed for one status code present in the table
ResponseEntry(statusCode, response, originalResponse, originalSpec) ==
    Const(ResponseSchema(response), LAMBDA rawSchema :
    Const(ResponseSchema(originalResponse), LAMBDA originalNode :
    Const(Coalesce(extractSchemaName(originalNode), extractSchemaName(rawSchema)),
          LAMBDA name :
        [statusCode |-> statusCode,
         description |-> IF Has(response, "description") THEN response.description ELSE ""]
        @@ (IF rawSchema # Undefined
            THEN [schema |-> simplifySchema(rawSchema, originalNode, name, originalSpec)]
            ELSE EmptyObject)
        @@ WithName("schemaName", name)
        @@ ExampleOf(JSONContent(response), rawSchema))))

\* the loop over importantCodes from position i on
RECURSIVE ResponsesFrom(_, _, _, _)
ResponsesFrom(i, responses, originalResponses, originalSpec) ==
    IF i > Len(importantCodes) THEN <<>>
    ELSE Const(ResponsesFrom(i + 1, responses, originalResponses, originalSpec),
               LAMBDA rest :
             IF ~Has(responses, importantCodes[i]) THEN rest
             ELSE <<ResponseEntry(importantCodes[i], responses[importantCodes[i]],
                        Opt(originalResponses, importantCodes[i]), originalSpec)>> \o rest)

extractResponses(responses, originalResponses, originalSpec) ==
    ResponsesFrom(1, responses, originalResponses, originalSpec)

extractEndpointResponses(operation, originalOperation, originalSpec) ==
    Const(Opt(originalOperation, "responses"), LAMBDA declared :
    Const(IF declared # Undefined /\ Has(declared, "ref")
          THEN resolveRef(declared, originalSpec)
          ELSE declared, LAMBDA originalResponses :
        extractResponses(operation.responses, originalResponses, originalSpec)))

----------------------------------------------------------------------------
(* extractEndpoint                                                         *)

extractEndpoint(path, method, operation, pathItem, originalOperation, originalSpec) ==
    Const(extractAllParameters(operation, pathItem), LAMBDA extracted :
    Const(extractEndpointRequestBody(operation, extracted.bodyParam,
              originalOperation, originalSpec), LAMBDA requestBody :
        [operationId |-> IF Has(operation, "operationId") THEN operation.operationId
                         ELSE generateOperationId(method, path),
         method |-> method,
         path |-> path,
         tags |-> IF Has(operation, "tags") THEN operation.tags ELSE <<"default">>,
         parameters |-> extracted.parameters,
         responses |-> extractEndpointResponses(operation, originalOperation, originalSpec)]
        @@ [k \in {"summary", "description"} \cap DOMAIN operation |-> operation[k]]
        @@ (IF requestBody # Undefined THEN [requestBody |-> requestBody] ELSE EmptyObject)))

----------------------------------------------------------------------------
(* extractEndpoints: one action per way an iteration of the loops ends     *)

HTTP_METHODS_deleteFirst == <<"delete", "get", "post", "put", "patch", "options", "head">>
HTTP_METHODS == <<"get", "post", "put", "patch", "delete", "options", "head">>

\* the destructuring defaults of the options
excludeTags == IF Has(options, "excludeTags") THEN options.excludeTags ELSE <<>>
excludePaths == IF Has(options, "excludePaths") THEN options.excludePaths ELSE <<>>
excludeDeprecated_defaultFalse ==
    IF Has(options, "excludeDeprecated") THEN options.excludeDeprecated ELSE FALSE
excludeDeprecated ==
    IF Has(options, "excludeDeprecated") THEN options.excludeDeprecated ELSE TRUE
originalSpec == Opt(options, "originalSpec")

\* new RegExp(pattern).test(path) for a pattern without metacharacters:
\* the pattern occurs somewhere in the path
RegExpTest(pattern, path) ==
    \E i \in 0..(Len(path) - Len(pattern)) : SubSeq(path, i + 1, i + Len(pattern)) = pattern

\* excludePathRegexes.some(regex => regex.test(path))
PathExcluded(path) ==
    \E i \in 1..Len(excludePaths) : RegExpTest(excludePaths[i], path)

\* tags.some(tag => excludeTags.includes(tag)), tags defaulting to ['default']
TagsExcluded_every(operation) ==
    LET tags == IF Has(operation, "tags") THEN operation.tags ELSE <<"default">>
    IN  \A i \in 1..Len(tags) : Includes(excludeTags, tags[i])
TagsExcluded(operation) ==
    LET tags == IF Has(operation, "tags") THEN operation.tags ELSE <<"default">>
    IN  \E i \in 1..Len(tags) : Includes(excludeTags, tags[i])

\* excludeDeprecated && operation.deprecated
DeprecatedExcluded(operation) ==
    excludeDeprecated /\ Has(operation, "deprecated") /\ operation.deprecated

paths == spec.paths
InLoop == pc = "loop" /\ pathIdx <= Len(paths)
path == paths[pathIdx].key
pathItem == paths[pathIdx].value
method == HTTP_METHODS[methodIdx]
operation == pathItem[method]

\* originalPaths[path]?.[method]
OriginalOperation(document, p, m) ==
    LET originalPaths == IF document # Undefined /\ Has(document, "paths")
                         THEN document.paths ELSE <<>>
    IN  IF HasKey(originalPaths, p) THEN Opt(Get(originalPaths, p), m) ELSE Undefined

\* the next iteration of the inner loop, or of the outer loop after 'head'
NextMethod ==
    IF methodIdx < Len(HTTP_METHODS)
    THEN methodIdx' = methodIdx + 1 /\ pathIdx' = pathIdx
    ELSE methodIdx' = 1 /\ pathIdx' = pathIdx + 1

SkipExcludedPath ==
    /\ InLoop /\ methodIdx = 1
    /\ PathExcluded(path)
    /\ pathIdx' = pathIdx + 1
    /\ UNCHANGED <<spec, options, pc, methodIdx, endpoints, schema, originalSchema, returned, stack>>

SkipUndeclaredMethod ==
    /\ InLoop /\ ~PathExcluded(path)
    /\ ~Has(pathItem, method)
    /\ NextMethod
    /\ UNCHANGED <<spec, options, pc, endpoints, schema, originalSchema, returned, stack>>

SkipDeprecated ==
    /\ InLoop /\ ~PathExcluded(path)
    /\ Has(pathItem, method)
    /\ DeprecatedExcluded(operation)
    /\ NextMethod
    /\ UNCHANGED <<spec, options, pc, endpoints, schema, originalSchema, returned, stack>>

SkipExcludedTags ==
    /\ InLoop /\ ~PathExcluded(path)
    /\ Has(pathItem, method)
    /\ ~DeprecatedExcluded(operation)
    /\ TagsExcluded(operation)
    /\ NextMethod
    /\ UNCHANGED <<spec, options, pc, endpoints, schema, originalSchema, returned, stack>>

PushEndpoint_filtersInPlace ==
    /\ InLoop /\ ~PathExcluded(path)
    /\ Has(pathItem, method)
    /\ ~DeprecatedExcluded(operation)
    /\ ~TagsExcluded(operation)
    /\ \E originalOperation \in {OriginalOperation(originalSpec, path, method)} :
           endpoints' = Append(endpoints,
               extractEndpoint(path, method, operation, pathItem,
                   originalOperation, originalSpec))
    /\ NextMethod
    /\ spec' = [spec EXCEPT !.paths[pathIdx].value[method] =
                    IF Has(@, "parameters")
                    THEN [@ EXCEPT !.parameters = SelectSeq(@, LAMBDA p : p.in # "body")]
                    ELSE @]
    /\ UNCHANGED <<options, pc, schema, originalSchema, returned, stack>>
\* endpoints.push(extractEndpoint(...)): every object written by the call
\* (endpoints l.37, the records of extractEndpoint, result l.260 and l.371,
\* simplified l.403 and its properties l.429) is created by the call, so no
\* node of the two documents is assigned to
PushEndpoint ==
    /\ InLoop /\ ~PathExcluded(path)
    /\ Has(pathItem, method)
    /\ ~DeprecatedExcluded(operation)
    /\ ~TagsExcluded(operation)
    /\ \E originalOperation \in {OriginalOperation(originalSpec, path, method)} :
           endpoints' = Append(endpoints,
               extractEndpoint(path, method, operation, pathItem,
                   originalOperation, originalSpec))
    /\ NextMethod
    /\ UNCHANGED <<spec, options, pc, schema, originalSchema, returned, stack>>

ReturnEndpoints ==
    /\ pc = "loop" /\ pathIdx > Len(paths)
    /\ pc' = "done"
    /\ UNCHANGED <<spec, options, pathIdx, methodIdx, endpoints, schema, originalSchema, returned, stack>>

----------------------------------------------------------------------------
(* The schema helpers applied to a schema node                             *)

CallExtractSchemaName ==
    /\ pc = "schema" /\ ~Has(returned, "extractSchemaName")
    /\ returned' = returned @@ [extractSchemaName |-> extractSchemaName(schema)]
    /\ UNCHANGED <<spec, options, pc, pathIdx, methodIdx, endpoints, schema, originalSchema, stack>>

CallSimplifySchema ==
    /\ pc = "schema" /\ ~Has(returned, "simplifySchema")
    /\ returned' = returned @@
           [simplifySchema |-> simplifySchema(schema, originalSchema, NoName, originalSpec)]
    /\ UNCHANGED <<spec, options, pc, pathIdx, methodIdx, endpoints, schema, originalSchema, stack>>

\* the tree simplifySchema returned, simplified again as a schema node of
\* its own: no original node and no name
CallSimplifySchemaAgain ==
    /\ pc = "schema" /\ Has(returned, "simplifySchema") /\ ~Has(returned, "simplifiedAgain")
    /\ returned' = returned @@
           [simplifiedAgain |->
                simplifySchema(returned.simplifySchema, Undefined, NoName, originalSpec)]
    /\ UNCHANGED <<spec, options, pc, pathIdx, methodIdx, endpoints, schema, originalSchema, stack>>

CallResolveRef ==
    /\ pc = "resolve" /\ ~Has(returned, "resolveRef")
    /\ returned' = returned @@ [resolveRef |-> resolveRef(schema, originalSpec)]
    /\ UNCHANGED <<spec, options, pc, pathIdx, methodIdx, endpoints, schema, originalSchema,
                   stack>>

CallGetEffectiveSchema ==
    /\ pc = "schema" /\ ~Has(returned, "getEffectiveSchema")
    /\ returned' = returned @@ [getEffectiveSchema |-> getEffectiveSchema(schema, originalSpec)]
    /\ UNCHANGED <<spec, options, pc, pathIdx, methodIdx, endpoints, schema, originalSchema, stack>>

----------------------------------------------------------------------------
(* simplifySchema call by call: each call in progress is a frame holding   *)
(* its two nodes and the recursive calls it has still to make              *)

ItemsLabel == "[]"

\* the recursive calls one call of simplifySchema makes: one per effective
\* property, and one for the items of an array
SimplifyCalls(node, original, document) ==
    Const(getEffectiveSchema(node, document), LAMBDA eff :
    Const(IF original # Undefined THEN getEffectiveSchema(original, document)
          ELSE Undefined, LAMBDA effectiveOriginal :
        LET type == IF Has(eff, "type") THEN eff.type
                    ELSE IF DOMAIN eff.properties # {} THEN "object" ELSE "unknown"
            items == IF Has(eff, "items") THEN eff.items
                     ELSE IF Has(node, "items") THEN node.items ELSE Undefined
            originalItems ==
                IF effectiveOriginal # Undefined /\ Has(effectiveOriginal, "items")
                THEN effectiveOriginal.items
                ELSE IF original # Undefined /\ Has(original, "items")
                THEN original.items
                ELSE Undefined
        IN  [key \in DOMAIN eff.properties |->
                [node |-> eff.properties[key],
                 original |-> IF effectiveOriginal # Undefined
                                 /\ Has(effectiveOriginal.properties, key)
                              THEN effectiveOriginal.properties[key]
                              ELSE Undefined]]
            @@ (IF type = "array" /\ items # Undefined
                THEN [k \in {ItemsLabel} |-> [node |-> items, original |-> originalItems]]
                ELSE EmptyObject)))

\* a call of simplifySchema that has just been entered
Frame(node, original) ==
    [node |-> node,
     original |-> original,
     pending |-> IF node = Undefined THEN {}
                 ELSE DOMAIN SimplifyCalls(node, original, originalSpec)]

EnterSimplifySchema ==
    /\ pc = "simplify" /\ stack = <<>>
    /\ stack' = <<Frame(schema, originalSchema)>>
    /\ pc' = "simplifying"
    /\ UNCHANGED <<spec, options, pathIdx, methodIdx, endpoints, schema, originalSchema,
                   returned>>

\* the innermost call makes one of its recursive calls
DescendSimplifySchema ==
    /\ pc = "simplifying" /\ Len(stack) < MaxCallDepth
    /\ \E label \in stack[Len(stack)].pending :
           \E call \in {SimplifyCalls(stack[Len(stack)].node, stack[Len(stack)].original,
                                      originalSpec)[label]} :
               stack' = Append([stack EXCEPT ![Len(stack)].pending = @ \ {label}],
                               Frame(call.node, call.original))
    /\ UNCHANGED <<spec, options, pc, pathIdx, methodIdx, endpoints, schema, originalSchema,
                   returned>>

\* the innermost call has made all its recursive calls and returns
ReturnSimplifySchema ==
    /\ pc = "simplifying" /\ stack[Len(stack)].pending = {}
    /\ stack' = SubSeq(stack, 1, Len(stack) - 1)
    /\ pc' = IF Len(stack) = 1 THEN "done" ELSE pc
    /\ UNCHANGED <<spec, options, pathIdx, methodIdx, endpoints, schema, originalSchema,
                   returned>>

----------------------------------------------------------------------------
(* Input documents and schema nodes                                        *)

\* all sequences over S of the lengths in lens
SeqsOf(S, lens) == UNION {[1..n -> S] : n \in lens}

\* "#/definitions/<name>"
RefTo(name) == <<"#", "/">> \o Chars("definitions") \o <<"/">> \o name

StringSchema == [type |-> "string"]
IntegerSchema == [type |-> "integer"]

\* the named schemas of the documents
PetSchema ==
    [type |-> "object",
     properties |-> [x |-> StringSchema, n |-> StringSchema],
     required |-> <<"n">>]
OwnerSchema ==
    [allOf |-> <<[ref |-> RefTo(Chars("Pet"))], [properties |-> [x |-> IntegerSchema]]>>]
AliasSchema == [ref |-> RefTo(Chars("Pet"))]

\* the original document of the schema helpers: references intact
SchemaDocument ==
    [paths |-> <<>>,
     definitions |-> [Pet |-> PetSchema, Owner |-> OwnerSchema, A |-> AliasSchema]]

\* reference strings: resolvable, alias, missing target, trailing slash,
\* not in-document, no slash at all
RefStrings ==
    {RefTo(Chars("Pet")), RefTo(Chars("Owner")), RefTo(<<"A">>), RefTo(<<"Q">>),
     RefTo(<<>>), <<"e", "#", "/">> \o Chars("Pet"), Chars("Pet")}

RefNodes == {[ref |-> r] : r \in RefStrings}
UnnamedNodes == {EmptyObject, StringSchema, [type |-> "array"]}
BaseNodes == RefNodes \cup UnnamedNodes
\* the branches of the compositions: a reference that yields a name, one
\* that yields none, an array that yields a name, and a node without a name
BranchNodes ==
    {[ref |-> RefTo(Chars("Pet"))], [ref |-> RefTo(<<>>)],
     [type |-> "array", items |-> [ref |-> RefTo(Chars("Owner"))]], EmptyObject}

ArrayOf(node) == [type |-> "array", items |-> node]

\* arrays nested up to depth n around the nodes of S
RECURSIVE NestedArrays(_, _)
NestedArrays(S, n) ==
    IF n = 0 THEN S ELSE S \cup {ArrayOf(node) : node \in NestedArrays(S, n - 1)}

CompositeKeys == {"allOf", "anyOf", "oneOf"}
CompositesOf(S) ==
    {[k \in {key} |-> branches] : key \in CompositeKeys, branches \in SeqsOf(S, 1..MaxBranches)}

\* nodes for name recovery: references, nested arrays, compositions, and
\* nodes that carry several of these at once
NameNodes ==
    LET arrays == NestedArrays(BaseNodes, MaxNesting)
        composites == CompositesOf(BranchNodes)
        twoKeys == {[allOf |-> <<a>>, anyOf |-> <<b>>] : a, b \in BranchNodes}
                   \cup {[anyOf |-> <<a>>, oneOf |-> <<b>>] : a, b \in BranchNodes}
        extras == {ArrayOf(StringSchema), ArrayOf([ref |-> RefTo(Chars("Owner"))]),
                   [properties |-> [x |-> StringSchema]]}
    IN  arrays \cup composites \cup twoKeys
        \cup {c @@ e : c \in composites \cup RefNodes, e \in extras}
        \cup {ArrayOf(c) : c \in composites}
        \cup {r @@ [allOf |-> <<b>>] @@ ArrayOf(i) :
                 r \in RefNodes, b \in BranchNodes, i \in BranchNodes}

\* nodes for composition flattening: own members and allOf branches that
\* declare properties, the singular fields, or required names
PropValues == {StringSchema, IntegerSchema}
PropMaps ==
    {m \in UNION {[keys -> PropValues] : keys \in SUBSET {"x", "y"}} :
        "y" \in DOMAIN m => m.y = StringSchema}
PropParts == {EmptyObject} \cup {[properties |-> m] : m \in PropMaps}
SingularParts ==
    {EmptyObject}
    \cup {[type |-> t] : t \in {"object", "string"}}
    \cup {[enum |-> e] : e \in {<<"e">>, <<"f">>}}
    \cup {[items |-> i] : i \in PropValues}
    \cup {[type |-> "object", enum |-> <<"f">>, items |-> IntegerSchema]}
RequiredParts == {EmptyObject, [required |-> <<"x">>], [required |-> <<"y", "x">>]}
MixedParts ==
    {[properties |-> [x |-> StringSchema]], [type |-> "string"],
     [type |-> "object", properties |-> [x |-> IntegerSchema, y |-> IntegerSchema]]}

WithAllOf(own, branches) == own @@ [allOf |-> branches]

EffectiveNodes ==
    {WithAllOf(own, branches) :
        own \in PropParts,
        branches \in SeqsOf(PropParts \cup {[ref |-> RefTo(Chars("Pet"))]}, 0..MaxBranches)}
    \cup {WithAllOf(own, branches) :
        own \in SingularParts, branches \in SeqsOf(SingularParts, 0..MaxBranches)}
    \cup {WithAllOf(own, branches) :
        own \in RequiredParts, branches \in SeqsOf(RequiredParts, 0..MaxBranches)}
    \cup {WithAllOf(own, <<WithAllOf(b, <<c, d>>), e>>) :
        own \in MixedParts, b \in MixedParts, c \in MixedParts, d \in MixedParts,
        e \in MixedParts}
    \cup PropParts \cup SingularParts

\* a node placed at the root, under a property, or under array items
Placements == SeqsOf({"property", "items"}, 0..MaxNesting)
RECURSIVE Place(_, _)
Place(placement, node) ==
    IF placement = <<>> THEN node
    ELSE IF Head(placement) = "property"
    THEN [type |-> "object",
          properties |-> [p |-> Place(Tail(placement), node), q |-> StringSchema]]
    ELSE ArrayOf(Place(Tail(placement), node))

\* a dereferenced node with its original: the original holds a reference
\* where the dereferenced node holds the schema inlined
CongruentPairs ==
    {<<Place(placement, PetSchema), Place(placement, [ref |-> r])>> :
        placement \in Placements, r \in RefStrings}

\* nodes with a description, an example and an enum list, on the node or
\* on its original
MetadataParts ==
    {EmptyObject, [description |-> "d"], [example |-> "e"],
     [description |-> "d", example |-> "e", enum |-> <<"e", "f">>]}
MetadataPairs ==
    {<<[type |-> "string"] @@ own, [ref |-> RefTo(<<"Q">>)] @@ original>> :
        own \in MetadataParts, original \in MetadataParts}

\* a document is built twice from one description: dereferenced, with the
\* named schemas inlined, and original, with the references intact
PetNode(flavor) ==
    IF flavor = "original" THEN [ref |-> RefTo(Chars("Pet"))] ELSE PetSchema
OwnerNode(flavor) ==
    IF flavor = "original" THEN [ref |-> RefTo(Chars("Owner"))]
    ELSE [allOf |-> <<PetSchema, [properties |-> [x |-> IntegerSchema]]>>]

\* an object with two sibling properties: an inline object, and arrays
\* nested around Owner; the root is inline, or composed of Pet
InlineObject == [type |-> "object", properties |-> [x |-> StringSchema]]
RECURSIVE Nest(_, _)
Nest(depth, node) == IF depth = 0 THEN node ELSE ArrayOf(Nest(depth - 1, node))
SiblingRoot(flavor, depth, composed) ==
    (IF composed THEN [allOf |-> <<PetNode(flavor)>>] ELSE EmptyObject)
    @@ [type |-> "object",
        properties |-> [inline |-> InlineObject, owners |-> Nest(depth, OwnerNode(flavor))]]
SiblingPairs ==
    {<<SiblingRoot("dereferenced", depth, composed),
       IF withOriginal THEN SiblingRoot("original", depth, composed) ELSE Undefined>> :
        depth \in 1..MaxNesting, composed \in BOOLEAN, withOriginal \in BOOLEAN}

SchemaInputs ==
    {<<node, Undefined>> : node \in NameNodes \cup EffectiveNodes}
    \cup CongruentPairs \cup MetadataPairs \cup SiblingPairs
    \cup {<<Undefined, Undefined>>, <<Undefined, [ref |-> RefTo(Chars("Pet"))]>>}

EmptyDocument == [paths |-> <<>>]

InitSchema ==
    /\ pc = "schema"
    /\ spec = EmptyDocument
    /\ options \in {EmptyObject, [originalSpec |-> SchemaDocument]}
    /\ \E input \in SchemaInputs : schema = input[1] /\ originalSchema = input[2]
    /\ returned = EmptyObject
    /\ pathIdx = 1 /\ methodIdx = 1 /\ endpoints = <<>>
    /\ stack = <<>>

DefinitionsOf(flavor) ==
    [Pet |-> PetSchema,
     Owner |-> IF flavor = "original" THEN OwnerSchema ELSE OwnerNode(flavor)]

OkResponses == "200" :> [description |-> "ok"]
PlainOperation == [responses |-> OkResponses]

\* path entries after the first: filler i has its own path
FillerPath(i) == <<"/", "c">> \o [j \in 1..i |-> "c"]
FillerItems == {[put |-> [tags |-> <<"b">>] @@ PlainOperation]}
Fillers ==
    {[i \in 1..Len(items) |-> [key |-> FillerPath(i), value |-> items[i]]] :
        items \in SeqsOf(FillerItems, 0..(MaxPaths - 1))}

DocumentOf(entries, flavor) == [paths |-> entries, definitions |-> DefinitionsOf(flavor)]

\* documents and options for the exclusion rules
Tags == {"a", "b"}
TagParts ==
    {EmptyObject, [tags |-> <<"default">>]}
    \cup {[tags |-> t] : t \in SeqsOf(Tags, 0..MaxTags)}
DeprecatedParts == {EmptyObject, [deprecated |-> TRUE], [deprecated |-> FALSE]}
FilterOperations == {PlainOperation @@ t @@ d : t \in TagParts, d \in DeprecatedParts}
SecondOperations ==
    {[tags |-> <<"a">>] @@ PlainOperation,
     [tags |-> <<"b">>, deprecated |-> TRUE] @@ PlainOperation}
FilterItems ==
    {[get |-> op] : op \in FilterOperations}
    \cup {[head |-> op] : op \in SecondOperations}
    \cup {[get |-> op, post |-> second] : op \in SecondOperations, second \in SecondOperations}
FilterPaths == {<<"/", "a">>, <<"/", "b">>}
FilterOptions ==
    {t @@ d @@ p :
        t \in {EmptyObject} \cup
              {[excludeTags |-> e] :
                  e \in {<<>>, <<"a">>, <<"default">>, <<"a", "b">>}},
        d \in {EmptyObject, [excludeDeprecated |-> TRUE], [excludeDeprecated |-> FALSE]},
        p \in {EmptyObject, [excludePaths |-> << <<"/", "a">> >>]}}
FilterInputs ==
    {[spec |-> DocumentOf(<<[key |-> p, value |-> item]>> \o fillers, "dereferenced"),
      options |-> o] :
        p \in FilterPaths, item \in FilterItems, fillers \in Fillers, o \in FilterOptions}

\* operations for the request body: a requestBody object with its content
\* types in document order, and body-located and other parameters at the
\* operation and at the path level
ContentTypes == {JSON, "text/plain", "application/xml"}
ContentLists ==
    {c \in SeqsOf(ContentTypes, 0..MaxContentTypes) :
        \A i, j \in 1..Len(c) : i # j => c[i] # c[j]}
MediaType(contentType, flavor) ==
    IF contentType = "text/plain" THEN EmptyObject ELSE [schema |-> PetNode(flavor)]
ContentOf(list, flavor) ==
    [i \in 1..Len(list) |-> [key |-> list[i], value |-> MediaType(list[i], flavor)]]
RequestBodyKinds ==
    {[declared |-> FALSE]}
    \cup {[declared |-> TRUE, required |-> r, content |-> c] :
            r \in {"absent", "true", "false"}, c \in {<<"absent">>} \cup ContentLists}
RequestBodyPart(kind, flavor) ==
    IF ~kind.declared THEN EmptyObject
    ELSE [requestBody |->
             (IF kind.required = "absent" THEN EmptyObject
              ELSE [required |-> kind.required = "true"])
             @@ (IF kind.content = <<"absent">> THEN EmptyObject
                 ELSE [content |-> ContentOf(kind.content, flavor)])]

Parameter(kind, flavor) ==
    CASE kind = "body" ->
             [name |-> "pet", in |-> "body", required |-> TRUE, schema |-> PetNode(flavor)]
      [] kind = "body2" ->
             [name |-> "owner", in |-> "body", schema |-> OwnerNode(flavor)]
      [] kind = "bodyNoSchema" -> [name |-> "raw", in |-> "body"]
      [] kind = "query" ->
             [name |-> "limit", in |-> "query", schema |-> IntegerSchema]
      [] kind = "path" ->
             [name |-> "id", in |-> "path", required |-> TRUE, schema |-> StringSchema]
      [] kind = "pathOp" ->
             [name |-> "id", in |-> "path", required |-> TRUE, schema |-> IntegerSchema]
ParametersPart(kinds, flavor) ==
    IF kinds = <<"absent">> THEN EmptyObject
    ELSE [parameters |-> [i \in 1..Len(kinds) |-> Parameter(kinds[i], flavor)]]
OperationParameterKinds ==
    {<<"absent">>, <<"body">>, <<"query">>, <<"query", "body">>, <<"bodyNoSchema">>,
     <<"pathOp", "body", "query">>}
PathParameterKinds == {<<"absent">>, <<"body2">>, <<"path">>, <<"path", "body2", "query">>}

BodyDocument(body, opKinds, pathKinds, flavor) ==
    DocumentOf(
        <<[key |-> <<"/", "a">>,
           value |-> [post |-> PlainOperation @@ RequestBodyPart(body, flavor)
                                 @@ ParametersPart(opKinds, flavor)]
                     @@ ParametersPart(pathKinds, flavor)]>>,
        flavor)
BodyInputs ==
    {[spec |-> BodyDocument(body, opKinds, pathKinds, "dereferenced"),
      options |-> IF withOriginal
                  THEN [originalSpec |-> BodyDocument(body, opKinds, pathKinds, "original")]
                  ELSE EmptyObject] :
        body \in RequestBodyKinds, opKinds \in OperationParameterKinds,
        pathKinds \in PathParameterKinds, withOriginal \in BOOLEAN}

\* response tables: some of the allow-listed codes and some others
StatusCodes ==
    {importantCodes[i] : i \in 1..Len(importantCodes)} \cup {"302", "default"}
CodeSets == {codes \in SUBSET StatusCodes : Cardinality(codes) <= MaxCodes}
Response(statusCode, flavor) ==
    CASE statusCode = "200" ->
             [description |-> "ok",
              content |-> <<[key |-> JSON, value |-> [schema |-> PetNode(flavor)]]>>]
      [] statusCode = "201" -> [description |-> "created", schema |-> OwnerNode(flavor)]
      [] statusCode = "204" -> EmptyObject
      [] OTHER -> [description |-> statusCode]
ResponsesDocument(codes, flavor) ==
    DocumentOf(
        <<[key |-> <<"/", "a">>,
           value |-> [get |-> [responses |-> [c \in codes |-> Response(c, flavor)]]]]>>,
        flavor)
ResponsesInputs ==
    {[spec |-> ResponsesDocument(codes, "dereferenced"),
      options |-> IF withOriginal
                  THEN [originalSpec |-> ResponsesDocument(codes, "original")]
                  ELSE EmptyObject] :
        codes \in CodeSets, withOriginal \in BOOLEAN}

\* path templates for the synthesized identifier: braces, several slashes,
\* underscores, and no leading slash
OperationIdPaths ==
    {<<"/", "p", "e", "t", "s", "/", "{", "i", "d", "}">>,
     <<"/", "p", "e", "t", "s", "/", "i", "d">>,
     <<"/", "a", "/", "b">>, <<"/", "a", "_", "b">>,
     <<"_", "a">>, <<"/", "/", "a">>, <<"{", "a", "}">>, <<"/">>}
OperationIdItems ==
    {[get |-> PlainOperation],
     [get |-> [operationId |-> <<"l", "i", "s", "t", "P", "e", "t", "s">>] @@ PlainOperation],
     [post |-> [operationId |-> <<>>] @@ PlainOperation],
     [post |-> PlainOperation, delete |-> PlainOperation],
     [get |-> PlainOperation, post |-> [deprecated |-> TRUE] @@ PlainOperation,
      delete |-> PlainOperation]}
OperationIdInputs ==
    {[spec |-> DocumentOf([i \in 1..Len(keys) |-> [key |-> keys[i], value |-> item]],
                          "dereferenced"),
      options |-> EmptyObject] :
        keys \in {ks \in SeqsOf(OperationIdPaths, 1..MaxPaths) :
                     \A i, j \in 1..Len(ks) : i # j => ks[i] # ks[j]},
        item \in OperationIdItems}

ExtractInputs == FilterInputs \cup BodyInputs \cup ResponsesInputs \cup OperationIdInputs

InitExtract ==
    /\ pc = "loop"
    /\ \E input \in ExtractInputs : spec = input.spec /\ options = input.options
    /\ pathIdx = 1 /\ methodIdx = 1 /\ endpoints = <<>>
    /\ schema = Undefined /\ originalSchema = Undefined
    /\ returned = EmptyObject
    /\ stack = <<>>

\* schemas that refer to themselves: the dereferenced node keeps the
\* reference where the cycle was cut, at the root or one level down
NodeRef == [ref |-> RefTo(<<"N">>)]
NodeSchema == [type |-> "object", properties |-> [next |-> NodeRef, v |-> StringSchema]]
ListRef == [ref |-> RefTo(<<"L">>)]
ListSchema == [type |-> "array", items |-> ListRef]
CycleDocument ==
    [paths |-> <<>>,
     definitions |-> [N |-> NodeSchema, L |-> ListSchema, Pet |-> PetSchema]]
CycleInputs ==
    {<<NodeRef, NodeRef>>, <<NodeRef, Undefined>>, <<NodeSchema, NodeRef>>,
     <<NodeSchema, Undefined>>, <<ArrayOf(NodeSchema), ArrayOf(NodeRef)>>,
     <<ListRef, ListRef>>, <<ListSchema, ListRef>>, <<ListSchema, Undefined>>,
     <<PetSchema, [ref |-> RefTo(Chars("Pet"))]>>, <<ArrayOf(PetSchema), Undefined>>,
     <<Undefined, Undefined>>}

InitCycle ==
    /\ pc = "simplify"
    /\ spec = EmptyDocument
    /\ options \in {EmptyObject, [originalSpec |-> CycleDocument]}
    /\ \E input \in CycleInputs : schema = input[1] /\ originalSchema = input[2]
    /\ returned = EmptyObject
    /\ pathIdx = 1 /\ methodIdx = 1 /\ endpoints = <<>>
    /\ stack = <<>>

\* the document of resolveRef: an alias, an alias of an alias, and an alias
\* of a schema that is missing
ResolveDocument ==
    [paths |-> <<>>,
     definitions |->
         [Pet |-> PetSchema, Owner |-> OwnerSchema, A |-> AliasSchema,
          B |-> [ref |-> RefTo(<<"A">>)], D |-> [ref |-> RefTo(<<"Q">>)]]]

\* pointers: to a schema, to an alias, to nothing, into a schema down to a
\* property, to a string, through a string, and strings that are no pointer
PointerStrings ==
    RefStrings
    \cup {RefTo(<<"B">>), RefTo(<<"D">>),
          RefTo(Chars("Pet") \o <<"/">> \o Chars("properties") \o <<"/", "x">>),
          RefTo(Chars("Pet") \o <<"/">> \o Chars("properties") \o <<"/", "z">>),
          RefTo(Chars("Pet") \o <<"/">> \o Chars("type")),
          RefTo(Chars("Pet") \o <<"/">> \o Chars("type") \o <<"/", "x">>),
          <<"#", "/">>, <<"#">>}
ResolveNodes ==
    {[ref |-> r] : r \in PointerStrings}
    \cup {[ref |-> r, description |-> "d"] : r \in PointerStrings}
    \cup {Undefined, EmptyObject, StringSchema, PetSchema}

InitResolve ==
    /\ pc = "resolve"
    /\ spec = EmptyDocument
    /\ options \in {EmptyObject, [originalSpec |-> ResolveDocument]}
    /\ schema \in ResolveNodes
    /\ originalSchema = Undefined
    /\ returned = EmptyObject
    /\ pathIdx = 1 /\ methodIdx = 1 /\ endpoints = <<>>
    /\ stack = <<>>

Init == InitSchema \/ InitExtract \/ InitCycle \/ InitResolve

Next ==
    \/ SkipExcludedPath
    \/ SkipUndeclaredMethod
    \/ SkipDeprecated
    \/ SkipExcludedTags
    \/ PushEndpoint
    \/ ReturnEndpoints
    \/ CallExtractSchemaName
    \/ CallGetEffectiveSchema
    \/ CallSimplifySchema
    \/ CallSimplifySchemaAgain
    \/ CallResolveRef
    \/ EnterSimplifySchema
    \/ DescendSimplifySchema
    \/ ReturnSimplifySchema

Spec == Init /\ [][Next]_vars

----------------------------------------------------------------------------
(* Properties of the schema helpers                                        *)

Called(helper) == pc = "schema" /\ Has(returned, helper)

\* the schema node after reference resolution
Resolved == resolveRef(schema, originalSpec)

\* the property names a node declares itself or through its allOf branches
RECURSIVE DeclaredKeys(_)
DeclaredKeys(node) ==
    LET resolved == resolveRef(node, originalSpec)
        branches == IF Has(resolved, "allOf") THEN resolved.allOf ELSE <<>>
    IN  (IF Has(resolved, "properties") THEN DOMAIN resolved.properties ELSE {})
        \cup UNION {DeclaredKeys(branches[i]) : i \in 1..Len(branches)}

\* the property node kept for key when the node's own property wins over
\* its branches and a later branch wins over an earlier one
RECURSIVE OwnFirstProperty(_, _)
OwnFirstProperty(node, key) ==
    LET resolved == resolveRef(node, originalSpec)
        branches == IF Has(resolved, "allOf") THEN resolved.allOf ELSE <<>>
        declaring == {i \in 1..Len(branches) : key \in DeclaredKeys(branches[i])}
    IN  IF Has(resolved, "properties") /\ key \in DOMAIN resolved.properties
        THEN resolved.properties[key]
        ELSE OwnFirstProperty(branches[CHOOSE i \in declaring : \A j \in declaring : j <= i], key)

\* C5: for a node with an allOf composition the keys of the effective
\* property mapping are the union of the node's own and all branches'
\* property names, a later branch wins over an earlier one, and the node's
\* own property wins over every branch.
C5_OwnPropertiesOverrideBranches ==
    (Called("getEffectiveSchema") /\ Has(Resolved, "allOf")) =>
        LET result == returned.getEffectiveSchema
        IN  /\ DOMAIN result.properties = DeclaredKeys(schema)
            /\ \A key \in DOMAIN result.properties :
                   result.properties[key] = OwnFirstProperty(schema, key)

\* the values of field in the order the code meets them: the node's own,
\* then those of its branches in declared order, each flattened the same way
RECURSIVE Writers(_, _)
Writers(node, field) ==
    LET resolved == resolveRef(node, originalSpec)
        branches == IF Has(resolved, "allOf") THEN resolved.allOf ELSE <<>>
        RECURSIVE OfBranches(_)
        OfBranches(i) ==
            IF i > Len(branches) THEN <<>>
            ELSE Writers(branches[i], field) \o OfBranches(i + 1)
    IN  (IF Has(resolved, field) THEN <<resolved[field]>> ELSE <<>>) \o OfBranches(1)

\* C6: each of type, enum and items of the effective schema is the value
\* of the first writer (the node itself, then the branches in declared
\* order, recursively flattened), and is absent when nobody declares it.
C6_SingularFieldsFirstWriterWins ==
    Called("getEffectiveSchema") =>
        \A field \in {"type", "enum", "items"} :
            LET result == returned.getEffectiveSchema
                writers == Writers(schema, field)
            IN  IF writers = <<>> THEN ~Has(result, field)
                ELSE Has(result, field) /\ result[field] = writers[1]

\* a node without a type whose two branches declare different types gets
\* the first branch's type
C6_Witness ==
    /\ Called("getEffectiveSchema")
    /\ ~Has(schema, "type") /\ Has(schema, "allOf") /\ Len(schema.allOf) = 2
    /\ Writers(schema.allOf[1], "type") = <<"object">>
    /\ Writers(schema.allOf[2], "type") = <<"string">>
    /\ returned.getEffectiveSchema.type = "object"

\* the part of str after its last '/', the whole of str when it has none
AfterLastSlash(str) ==
    LET slashes == {i \in 1..Len(str) : str[i] = "/"}
        last == IF slashes = {} THEN 0 ELSE CHOOSE i \in slashes : \A j \in slashes : j <= i
    IN  SubSeq(str, last + 1, Len(str))

\* the node of a simplified tree at a placement
RECURSIVE At(_, _)
At(tree, placement) ==
    IF placement = <<>> THEN tree
    ELSE IF Head(placement) = "property" THEN At(tree.properties.p, Tail(placement))
    ELSE At(tree.items, Tail(placement))

\* C7: a node with a direct reference string is named by the final
\* '/'-separated segment of the reference, whatever other keys it has, and
\* so is the node of the simplified tree whose original is that reference,
\* at the root, under a property or under array items.
C7_RefNameIsLastSegment ==
    /\ (Called("extractSchemaName") /\ Has(schema, "ref")) =>
           returned.extractSchemaName = AfterLastSlash(schema.ref)
    /\ (Called("simplifySchema")
           /\ \E pair \in CongruentPairs : pair = <<schema, originalSchema>>) =>
           \E placement \in Placements : \E r \in RefStrings :
               /\ originalSchema = Place(placement, [ref |-> r])
               /\ At(returned.simplifySchema, placement).schemaName = AfterLastSlash(r)

\* a reference node that also has a composition array and array items
C7_Witness ==
    /\ Called("extractSchemaName")
    /\ Has(schema, "ref") /\ Has(schema, "allOf")
    /\ Has(schema, "type") /\ schema.type = "array" /\ Has(schema, "items")
    /\ returned.extractSchemaName = Chars("Pet")

\* the number of array markers str ends with
RECURSIVE TrailingMarkers(_)
TrailingMarkers(str) ==
    IF EndsWith(str, ArrayMarker)
    THEN 1 + TrailingMarkers(SubSeq(str, 1, Len(str) - 2))
    ELSE 0

\* the array rule applies to the node: no direct reference and no
\* composition branch that yields a name
ArrayRuleApplies ==
    /\ ~Has(schema, "ref")
    /\ \A i \in 1..Len(CompositeBranches(schema)) :
           ~Truthy(extractSchemaName(CompositeBranches(schema)[i]))
    /\ Has(schema, "type") /\ schema.type = "array" /\ Has(schema, "items")

----------------------------------------------------------------------------
(* Properties of extractEndpoints                                          *)

Returned == pc = "done"

\* the declared operations of the document, as <<path entry index, method>>
DeclaredOperations ==
    {<<i, HTTP_METHODS[j]>> : i \in 1..Len(paths), j \in 1..Len(HTTP_METHODS)}
    \cap {o \in (1..Len(paths)) \X {HTTP_METHODS[j] : j \in 1..Len(HTTP_METHODS)} :
             Has(paths[o[1]].value, o[2])}
OperationAt(o) == paths[o[1]].value[o[2]]

\* the operation has a record in the output list
Appears(o) ==
    \E k \in 1..Len(endpoints) :
        endpoints[k].path = paths[o[1]].key /\ endpoints[k].method = o[2]

\* the operation a record was made from, and its path item
PathItemOf(endpoint) == Get(paths, endpoint.path)
OperationOf(endpoint) == PathItemOf(endpoint)[endpoint.method]

IsDeprecated(op) == Has(op, "deprecated") /\ op.deprecated
ExcludedTagSet == {excludeTags[i] : i \in 1..Len(excludeTags)}
DeclaredTagSet(op) == {op.tags[i] : i \in 1..Len(op.tags)}

\* C1 as stated: an operation that is not deprecated, whose path matches
\* no excluded pattern and that declares at least one tag not in
\* excludeTags appears in the output list.
C1_SkippedOnlyWhenEveryTagExcluded ==
    Returned =>
        \A o \in DeclaredOperations :
            LET op == OperationAt(o)
            IN  (/\ ~IsDeprecated(op)
                 /\ ~PathExcluded(paths[o[1]].key)
                 /\ Has(op, "tags")
                 /\ DeclaredTagSet(op) \ ExcludedTagSet # {}) => Appears(o)

\* C1 as amended: an operation that declares tags, is not deprecated and
\* whose path matches no excluded pattern appears in the output list
\* exactly when none of its declared tags is in excludeTags.
C1_SkippedWhenSomeTagExcluded ==
    Returned =>
        \A o \in DeclaredOperations :
            LET op == OperationAt(o)
            IN  (/\ ~IsDeprecated(op)
                 /\ ~PathExcluded(paths[o[1]].key)
                 /\ Has(op, "tags")) =>
                    (Appears(o) <=> DeclaredTagSet(op) \cap ExcludedTagSet = {})

\* an operation tagged b and a is left out when only a is excluded
C1_Witness ==
    /\ Returned
    /\ excludeTags = <<"a">>
    /\ \E o \in DeclaredOperations :
           /\ Has(OperationAt(o), "tags") /\ OperationAt(o).tags = <<"b", "a">>
           /\ ~IsDeprecated(OperationAt(o))
           /\ ~PathExcluded(paths[o[1]].key)
           /\ ~Appears(o)

\* C2: an operation whose declared tags are all in excludeTags never
\* appears in the output list; an operation that declares no tags (no tags
\* member, or an empty one) is treated as tagged 'default': its record has
\* the tags ['default'] and, when nothing else excludes it, it is left out
\* exactly when 'default' is in excludeTags.
C2_AllTagsExcludedNeverAppears ==
    /\ Returned =>
           \A o \in DeclaredOperations :
               LET op == OperationAt(o)
                   declaresTags == Has(op, "tags") /\ op.tags # <<>>
               IN  /\ (declaresTags /\ DeclaredTagSet(op) \subseteq ExcludedTagSet)
                          => ~Appears(o)
                   /\ (~declaresTags /\ ~PathExcluded(paths[o[1]].key)
                          /\ ~DeprecatedExcluded(op))
                          => (Appears(o) <=> "default" \notin ExcludedTagSet)
    /\ \A k \in 1..Len(endpoints) :
           LET op == OperationOf(endpoints[k])
           IN  (~Has(op, "tags") \/ op.tags = <<>>) => endpoints[k].tags = <<"default">>

\* C3: a deprecated operation never appears when excludeDeprecated is
\* omitted or true; when it is explicitly false the operation appears
\* unless its path or its tags exclude it.
C3_DeprecatedExcludedByDefault ==
    Returned =>
        \A o \in DeclaredOperations :
            LET op == OperationAt(o)
            IN  IsDeprecated(op) =>
                    IF Has(options, "excludeDeprecated") /\ options.excludeDeprecated = FALSE
                    THEN Appears(o) <=>
                             (~PathExcluded(paths[o[1]].key) /\ ~TagsExcluded(op))
                    ELSE ~Appears(o)

\* a deprecated operation in the output, excludeDeprecated being false
C3_Witness ==
    /\ Returned
    /\ Has(options, "excludeDeprecated") /\ ~options.excludeDeprecated
    /\ \E o \in DeclaredOperations : IsDeprecated(OperationAt(o)) /\ Appears(o)

AllowList == {"200", "201", "204", "400", "401", "403", "404", "500"}

BodyParameters(endpoint) ==
    LET item == PathItemOf(endpoint)
        op == OperationOf(endpoint)
        all == (IF Has(item, "parameters") THEN item.parameters ELSE <<>>)
               \o (IF Has(op, "parameters") THEN op.parameters ELSE <<>>)
    IN  SelectSeq(all, LAMBDA p : p.in = "body")

\* the content types a requestBody declares, in document order
DeclaredContentTypes(body) ==
    IF Has(body, "content") THEN [i \in 1..Len(body.content) |-> body.content[i].key]
    ELSE <<>>

\* C9: a declared requestBody alone decides the record's request body and
\* body-located parameters are ignored; a body-located parameter is used
\* only when no requestBody is declared; with neither there is no request body.
C9_RequestBodyPrecedence ==
    \A k \in 1..Len(endpoints) :
        LET endpoint == endpoints[k]
            op == OperationOf(endpoint)
            bodyParams == BodyParameters(endpoint)
        IN  IF Has(op, "requestBody")
            THEN IF DeclaredContentTypes(op.requestBody) = <<>>
                 THEN ~Has(endpoint, "requestBody")
                 ELSE /\ Has(endpoint, "requestBody")
                      /\ Includes(DeclaredContentTypes(op.requestBody),
                                  endpoint.requestBody.contentType)
                      /\ endpoint.requestBody.required =
                             (Has(op.requestBody, "required") /\ op.requestBody.required)
            ELSE IF bodyParams # <<>>
            THEN Has(endpoint, "requestBody") =>
                     /\ endpoint.requestBody.contentType = JSON
                     /\ endpoint.requestBody.required =
                            (Has(bodyParams[1], "required") /\ bodyParams[1].required)
            ELSE ~Has(endpoint, "requestBody")

\* a requestBody that is not required wins over a required body parameter
C9_Witness ==
    \E k \in 1..Len(endpoints) :
        LET op == OperationOf(endpoints[k])
        IN  /\ Has(op, "requestBody") /\ ~Has(op.requestBody, "required")
            /\ DeclaredContentTypes(op.requestBody) = <<"application/xml">>
            /\ BodyParameters(endpoints[k]) # <<>>
            /\ BodyParameters(endpoints[k])[1].name = "pet"
            /\ endpoints[k].requestBody.contentType = "application/xml"
            /\ ~endpoints[k].requestBody.required

\* C10: for a declared requestBody the contentType is 'application/json'
\* when that type is declared, otherwise the first declared type; without
\* any declared content type no request body is extracted.
C10_ContentTypeNegotiation ==
    \A k \in 1..Len(endpoints) :
        LET endpoint == endpoints[k]
            op == OperationOf(endpoint)
        IN  Has(op, "requestBody") =>
                LET declared == DeclaredContentTypes(op.requestBody)
                IN  IF declared = <<>> THEN ~Has(endpoint, "requestBody")
                    ELSE /\ Has(endpoint, "requestBody")
                         /\ endpoint.requestBody.contentType =
                                IF Includes(declared, JSON) THEN JSON ELSE declared[1]

\* JSON is chosen although another content type is declared first
C10_Witness ==
    \E k \in 1..Len(endpoints) :
        LET op == OperationOf(endpoints[k])
        IN  /\ Has(op, "requestBody")
            /\ DeclaredContentTypes(op.requestBody) = <<"application/xml", JSON>>
            /\ endpoints[k].requestBody.contentType = JSON

\* the body-located parameters of the operation in the original document,
\* path level first
OriginalBodyParameters(endpoint) ==
    LET item == Get(originalSpec.paths, endpoint.path)
        op == item[endpoint.method]
        all == (IF Has(item, "parameters") THEN item.parameters ELSE <<>>)
               \o (IF Has(op, "parameters") THEN op.parameters ELSE <<>>)
    IN  SelectSeq(all, LAMBDA p : p.in = "body")

\* C11: for an operation without requestBody whose body-located parameter,
\* at path level or at operation level, has in the original document a
\* schema that is a reference to a named schema N, the request body record
\* has contentType 'application/json', schemaName N and required equal to
\* the parameter's own required flag.
C11_BodyParameterNamedFromOriginal ==
    \A k \in 1..Len(endpoints) :
        LET endpoint == endpoints[k]
            op == OperationOf(endpoint)
        IN  (/\ ~Has(op, "requestBody")
             /\ originalSpec # Undefined
             /\ BodyParameters(endpoint) # <<>>
             /\ Has(BodyParameters(endpoint)[1], "schema")
             /\ Has(OriginalBodyParameters(endpoint)[1].schema, "ref")) =>
                LET param == BodyParameters(endpoint)[1]
                    N == AfterLastSlash(OriginalBodyParameters(endpoint)[1].schema.ref)
                IN  /\ Has(endpoint, "requestBody")
                    /\ endpoint.requestBody.contentType = JSON
                    /\ Has(endpoint.requestBody, "schemaName")
                    /\ endpoint.requestBody.schemaName = N
                    /\ endpoint.requestBody.required =
                           (Has(param, "required") /\ param.required)

\* the upper-cased names of the methods
UpperMethod ==
    [get |-> <<"G", "E", "T">>, post |-> <<"P", "O", "S", "T">>,
     put |-> <<"P", "U", "T">>, patch |-> <<"P", "A", "T", "C", "H">>,
     delete |-> <<"D", "E", "L", "E", "T", "E">>,
     options |-> <<"O", "P", "T", "I", "O", "N", "S">>, head |-> <<"H", "E", "A", "D">>]

\* what one character of the path template becomes in the identifier
IdChar(ch) ==
    IF ch = "/" THEN "_" ELSE IF ch \in DOMAIN UpperCase THEN UpperCase[ch] ELSE ch

\* C12: without a declared operationId the identifier is the upper-cased
\* method, an underscore, and the path template without its braces, with
\* '/' replaced by '_', without the leading '_', upper-cased; a declared
\* operationId is used unchanged.
C12_SynthesizedOperationId ==
    \A k \in 1..Len(endpoints) :
        LET endpoint == endpoints[k]
            op == OperationOf(endpoint)
            id == endpoint.operationId
            template == endpoint.path
            kept == {i \in 1..Len(template) : template[i] \notin {"{", "}"}}
            skip == IF kept # {} /\ IdChar(template[Nth(kept, 1)]) = "_" THEN 1 ELSE 0
            prefix == UpperMethod[endpoint.method] \o <<"_">>
        IN  IF Has(op, "operationId") THEN id = op.operationId
            ELSE /\ Len(id) = Len(prefix) + Cardinality(kept) - skip
                 /\ SubSeq(id, 1, Len(prefix)) = prefix
                 /\ \A i \in 1..(Cardinality(kept) - skip) :
                        id[Len(prefix) + i] = IdChar(template[Nth(kept, i + skip)])

\* GET on /pets/{id} without operationId gives GET_PETS_ID
C12_Witness ==
    \E k \in 1..Len(endpoints) :
        /\ endpoints[k].path = <<"/", "p", "e", "t", "s", "/", "{", "i", "d", "}">>
        /\ endpoints[k].method = "get"
        /\ ~Has(OperationOf(endpoints[k]), "operationId")
        /\ endpoints[k].operationId =
               <<"G", "E", "T", "_", "P", "E", "T", "S", "_", "I", "D">>

\* a simplified tree without the schemaName of any of its nodes
RECURSIVE WithoutNames(_)
WithoutNames(tree) ==
    [k \in DOMAIN tree \ {"schemaName"} |->
        IF k = "properties"
        THEN [p \in DOMAIN tree.properties |-> WithoutNames(tree.properties[p])]
        ELSE IF k = "items" THEN WithoutNames(tree.items)
        ELSE tree[k]]

\* C13 as stated: the tree produced by simplifySchema, simplified again
\* without original node and without name, is identical to the first tree
\* in every field of every node.
C13_SimplifyIsIdempotent ==
    Called("simplifiedAgain") => returned.simplifiedAgain = returned.simplifySchema

\* C13 as amended: for a schema node that is present, the second tree is
\* identical to the first in every field of every node except schemaName,
\* which no node of the second tree has; for an absent schema node the
\* first tree is only type 'unknown' and the second adds to it an empty
\* required list and an empty property mapping.
C13_SimplifyIsIdempotentButForNames ==
    Called("simplifiedAgain") =>
        returned.simplifiedAgain =
            IF schema = Undefined
            THEN [type |-> "unknown", required |-> <<>>, properties |-> EmptyObject]
            ELSE WithoutNames(returned.simplifySchema)

\* a named tree with properties and a required list, simplified twice
C13_Witness ==
    /\ Called("simplifiedAgain")
    /\ Has(returned.simplifySchema, "schemaName")
    /\ DOMAIN returned.simplifySchema.properties # {}
    /\ Len(returned.simplifySchema.required) > 0
    /\ ~Has(returned.simplifiedAgain, "schemaName")
    /\ returned.simplifiedAgain.properties =
           WithoutNames(returned.simplifySchema).properties

\* the depth of a dereferenced node as the extractor is handed it: a
\* reference left in place is a leaf
RECURSIVE SchemaDepth(_)
SchemaDepth(node) ==
    LET children ==
            (IF Has(node, "properties")
             THEN {node.properties[key] : key \in DOMAIN node.properties} ELSE {})
            \cup (IF Has(node, "items") THEN {node.items} ELSE {})
        depths == {SchemaDepth(child) : child \in children}
    IN  IF node = Undefined \/ children = {} THEN 1
        ELSE 1 + CHOOSE d \in depths : \A e \in depths : e <= d

\* C14: simplifySchema terminates on a dereferenced node in which a
\* reference of a cyclic schema was left in place: no call is nested in a
\* call with the same two nodes, and the calls are nested no deeper than
\* the dereferenced node is.
C14_SimplifyBoundedByCycleBreak ==
    pc = "simplifying" =>
        /\ \A i, j \in 1..Len(stack) :
               (i # j) => <<stack[i].node, stack[i].original>>
                              # <<stack[j].node, stack[j].original>>
        /\ Len(stack) <= SchemaDepth(schema)

\* the node a pointer leads to from current, found only when every
\* segment, the last one included, names a member that is an object
RECURSIVE Reach(_, _)
Reach(current, parts) ==
    IF parts = <<>> THEN [found |-> TRUE, value |-> current]
    ELSE LET keys == {k \in DOMAIN current : Chars(k) = Head(parts)}
         IN  IF keys = {} \/ keys \subseteq ScalarKeys THEN [found |-> FALSE]
             ELSE Reach(current[CHOOSE k \in keys : TRUE], Tail(parts))

\* the node resolveRef is to return: the node itself in a failure case,
\* and otherwise what the node the pointer reaches resolves to
RECURSIVE ResolvesTo(_, _)
ResolvesTo(node, document) ==
    IF node = Undefined \/ document = Undefined \/ ~Has(node, "ref") THEN node
    ELSE IF Len(node.ref) < 2 \/ node.ref[1] # "#" \/ node.ref[2] # "/" THEN node
    ELSE LET reached == Reach(document, Split(SubSeq(node.ref, 3, Len(node.ref))))
         IN  IF reached.found THEN ResolvesTo(reached.value, document) ELSE node

\* C15: resolveRef returns the reference node unchanged when the string
\* does not start with '#/', when the document is absent, or when a segment
\* lookup, the last one included, does not yield an object; otherwise it
\* returns the node reached, aliases followed.
C15_ResolveRefFailsToOriginalNode ==
    (pc = "resolve" /\ Has(returned, "resolveRef")) =>
        returned.resolveRef = ResolvesTo(schema, originalSpec)

MethodOrder == <<"get", "post", "put", "patch", "delete", "options", "head">>

\* the declared operations that are not excluded, as
\* <<path entry index, position in MethodOrder>>
KeptOperations ==
    {o \in (1..Len(paths)) \X (1..Len(MethodOrder)) :
        /\ Has(paths[o[1]].value, MethodOrder[o[2]])
        /\ ~PathExcluded(paths[o[1]].key)
        /\ ~DeprecatedExcluded(paths[o[1]].value[MethodOrder[o[2]]])
        /\ ~TagsExcluded(paths[o[1]].value[MethodOrder[o[2]]])}

\* the position of a kept operation: by path entry, then by method
Rank(o) ==
    Cardinality({q \in KeptOperations :
                    q[1] < o[1] \/ (q[1] = o[1] /\ q[2] <= o[2])})

\* C17: the output list holds exactly one record per declared operation
\* that is not excluded, ordered by path in document order and, within a
\* path, by method in the order get, post, put, patch, delete, options,
\* head.
C17_OneRecordPerOperationInOrder ==
    Returned =>
        /\ Len(endpoints) = Cardinality(KeptOperations)
        /\ \A o \in KeptOperations :
               /\ endpoints[Rank(o)].path = paths[o[1]].key
               /\ endpoints[Rank(o)].method = MethodOrder[o[2]]

\* two paths that declare get, a deprecated post and delete: four records,
\* get before delete under each path, the first path first
C17_Witness ==
    /\ Returned
    /\ Len(paths) = 2 /\ Len(endpoints) = 4
    /\ \A i \in 1..2 : DOMAIN paths[i].value = {"get", "post", "delete"}
    /\ endpoints[1].path = paths[1].key /\ endpoints[1].method = "get"
    /\ endpoints[2].path = paths[1].key /\ endpoints[2].method = "delete"
    /\ endpoints[3].path = paths[2].key /\ endpoints[3].method = "get"
    /\ endpoints[4].path = paths[2].key /\ endpoints[4].method = "delete"

\* the parameters declared at one level, and the positions of those that
\* are not body-located
DeclaredParameters(node) == IF Has(node, "parameters") THEN node.parameters ELSE <<>>
Kept(declared) == {i \in 1..Len(declared) : declared[i].in # "body"}
KeptUpTo(declared, i) == Cardinality({j \in Kept(declared) : j <= i})

\* the entry of the list is made from the declared parameter
MadeFrom(entry, declared) ==
    /\ entry.name = declared.name /\ entry.in = declared.in
    /\ Has(declared, "schema") => entry.type = <<declared.schema.type>>

\* C18: the parameters list of a record is the path-level parameters
\* followed by the operation-level parameters, each in declared order,
\* without the body-located ones and with nothing else removed; no entry
\* has location 'body'.
C18_ParametersPathLevelFirst ==
    Returned =>
        \A k \in 1..Len(endpoints) :
            LET pathLevel == DeclaredParameters(PathItemOf(endpoints[k]))
                operationLevel == DeclaredParameters(OperationOf(endpoints[k]))
                parameters == endpoints[k].parameters
            IN  /\ Len(parameters) =
                       Cardinality(Kept(pathLevel)) + Cardinality(Kept(operationLevel))
                /\ \A i \in Kept(pathLevel) :
                       MadeFrom(parameters[KeptUpTo(pathLevel, i)], pathLevel[i])
                /\ \A i \in Kept(operationLevel) :
                       MadeFrom(parameters[Cardinality(Kept(pathLevel))
                                           + KeptUpTo(operationLevel, i)],
                                operationLevel[i])
                /\ \A i \in 1..Len(parameters) : parameters[i].in # "body"

\* id declared at both levels, each level with a body parameter in the
\* middle: the path-level id comes first, the operation-level id third
C18_Witness ==
    /\ Returned
    /\ \E k \in 1..Len(endpoints) :
           LET parameters == endpoints[k].parameters
           IN  /\ Len(DeclaredParameters(PathItemOf(endpoints[k]))) = 3
               /\ Len(DeclaredParameters(OperationOf(endpoints[k]))) = 3
               /\ Len(parameters) = 4
               /\ parameters[1].name = "id" /\ parameters[1].type = <<"string">>
               /\ parameters[3].name = "id" /\ parameters[3].type = <<"integer">>
               /\ parameters[2].name = "limit" /\ parameters[4].name = "limit"

\* the name a node of the simplified tree carries
NameOf(node) == IF Has(node, "schemaName") THEN node.schemaName ELSE NoName

\* the name recovered for a nested node: from its original node when that
\* yields one, otherwise from the dereferenced node
RecoveredName(node, original) ==
    IF extractSchemaName(original) # NoName THEN extractSchemaName(original)
    ELSE extractSchemaName(node)

\* the node with every property it declares replaced by a string schema
Nameless(node) ==
    IF node # Undefined /\ Has(node, "properties")
    THEN [node EXCEPT !.properties = [k \in DOMAIN @ |-> StringSchema]]
    ELSE node

IsSiblingRoot ==
    /\ schema # Undefined /\ Has(schema, "properties")
    /\ DOMAIN schema.properties = {"inline", "owners"}

\* C19: every property node and every array-item node of the simplified
\* tree carries the name recovered for its own sub-schema, from the
\* corresponding original node when that yields a name and otherwise from
\* the dereferenced node; of the siblings inline and owners the first has
\* no name and the second, with its original, the Owner-derived one; and
\* the root has the name it has when no property yields a name.
C19_NestedNamesIndependent ==
    (Called("simplifySchema") /\ schema # Undefined) =>
        LET tree == returned.simplifySchema
            eff == getEffectiveSchema(schema, originalSpec)
            effectiveOriginal ==
                IF originalSchema = Undefined THEN Undefined
                ELSE getEffectiveSchema(originalSchema, originalSpec)
            originalProp(key) ==
                IF effectiveOriginal # Undefined /\ Has(effectiveOriginal.properties, key)
                THEN effectiveOriginal.properties[key] ELSE Undefined
            items == IF Has(eff, "items") THEN eff.items ELSE Opt(schema, "items")
            originalItems ==
                IF effectiveOriginal # Undefined /\ Has(effectiveOriginal, "items")
                THEN effectiveOriginal.items ELSE Opt(originalSchema, "items")
        IN  /\ \A key \in DOMAIN tree.properties :
                   NameOf(tree.properties[key]) =
                       RecoveredName(eff.properties[key], originalProp(key))
            /\ Has(tree, "items") => NameOf(tree.items) = RecoveredName(items, originalItems)
            /\ NameOf(tree) =
                   NameOf(simplifySchema(Nameless(schema), Nameless(originalSchema),
                                         NoName, originalSpec))
            /\ IsSiblingRoot =>
                   /\ NameOf(tree.properties.inline) = NoName
                   /\ originalSchema # Undefined =>
                          /\ NameOf(tree.properties.owners) = Chars("Owner") \o ArrayMarker
                          /\ NameOf(tree.properties.owners.items) \in
                                 {Chars("Owner"), Chars("Owner") \o ArrayMarker}

\* the siblings under a root composed of Pet, with the original: inline has
\* no name, owners is Owner[], its items are named, and the root is Pet
C19_Witness ==
    /\ Called("simplifySchema") /\ IsSiblingRoot
    /\ Has(schema, "allOf") /\ originalSchema # Undefined
    /\ ~Has(returned.simplifySchema.properties.inline, "schemaName")
    /\ returned.simplifySchema.properties.owners.schemaName = Chars("Owner") \o ArrayMarker
    /\ returned.simplifySchema.properties.owners.items.schemaName \in
           {Chars("Owner"), Chars("Owner") \o ArrayMarker}
    /\ returned.simplifySchema.schemaName = Chars("Pet")

\* the type a node declares itself or, failing that, through the first of
\* its allOf branches that declares one
NoType == ""
RECURSIVE DeclaredType(_)
DeclaredType(node) ==
    IF node = Undefined THEN NoType
    ELSE LET resolved == resolveRef(node, originalSpec)
             branches == IF Has(resolved, "allOf") THEN resolved.allOf ELSE <<>>
             typed == {i \in 1..Len(branches) : DeclaredType(branches[i]) # NoType}
         IN  IF Has(resolved, "type") THEN resolved.type
             ELSE IF typed = {} THEN NoType
             ELSE DeclaredType(branches[CHOOSE i \in typed : \A j \in typed : i <= j])

\* the type label of the statement
TypeLabel(node) ==
    IF DeclaredType(node) # NoType THEN DeclaredType(node)
    ELSE IF node # Undefined /\ DeclaredKeys(node) # {} THEN "object"
    ELSE "unknown"

\* the label of the root and of every property node is the one of the
\* statement, and an absent node gives only type 'unknown'
TypeLabelRule ==
    Called("simplifySchema") =>
        IF schema = Undefined THEN returned.simplifySchema = [type |-> "unknown"]
        ELSE /\ returned.simplifySchema.type = TypeLabel(schema)
             /\ \A key \in DOMAIN returned.simplifySchema.properties :
                    returned.simplifySchema.properties[key].type =
                        TypeLabel(getEffectiveSchema(schema, originalSpec).properties[key])

\* no call of simplifySchema in progress is nested in a call with the same
\* two nodes: every call comes to its return
EveryCallReturns ==
    pc = "simplifying" =>
        \A i \in 1..Len(stack) : \A j \in 1..(i - 1) :
            Frame(stack[i].node, stack[i].original)
                # Frame(stack[j].node, stack[j].original)

\* C20: the type label of a node produced by simplifySchema is the
\* effective type when one is declared, otherwise 'object' when the
\* effective property mapping is non-empty, otherwise 'unknown'; an absent
\* node yields only type 'unknown'; and no schema node makes simplifySchema
\* fail.
C20_TypeLabelAndNoFailure == TypeLabelRule /\ EveryCallReturns

\* the composition keys in the order of the statement, and the branches of
\* the node that yield a name, as <<position of the key, branch index>>
CompositionOrder == <<"allOf", "anyOf", "oneOf">>
NamedBranches ==
    {b \in (1..Len(CompositionOrder)) \X (1..MaxBranches) :
        /\ Has(schema, CompositionOrder[b[1]])
        /\ b[2] <= Len(schema[CompositionOrder[b[1]]])
        /\ Truthy(extractSchemaName(schema[CompositionOrder[b[1]]][b[2]]))}
FirstNamedBranch ==
    CHOOSE b \in NamedBranches :
        \A c \in NamedBranches : b[1] < c[1] \/ (b[1] = c[1] /\ b[2] <= c[2])
HasNamedItems ==
    /\ Has(schema, "type") /\ schema.type = "array" /\ Has(schema, "items")
    /\ Truthy(extractSchemaName(schema.items))

\* C21: extractSchemaName takes the name of a direct reference; otherwise
\* the name of the first branch that yields one, allOf before anyOf
\* before oneOf and each in declared order, as it is and without array
\* marker added; otherwise, for an array, the name of its items with the
\* marker; otherwise none.
C21_NameRulesInOrder ==
    (Called("extractSchemaName") /\ schema # Undefined) =>
        LET name == returned.extractSchemaName
        IN  IF Has(schema, "ref") THEN name = AfterLastSlash(schema.ref)
            ELSE IF NamedBranches # {}
            THEN name = extractSchemaName(
                            schema[CompositionOrder[FirstNamedBranch[1]]][FirstNamedBranch[2]])
            ELSE IF HasNamedItems
            THEN /\ EndsWith(name, ArrayMarker)
                 /\ name \in {extractSchemaName(schema.items),
                              extractSchemaName(schema.items) \o ArrayMarker}
            ELSE name = NoName

\* an array with named items and two anyOf branches, the first yielding no
\* name and the second a reference to Pet: the name is Pet, no marker
C21_Witness ==
    /\ Called("extractSchemaName")
    /\ ~Has(schema, "ref") /\ HasNamedItems
    /\ Has(schema, "anyOf") /\ Len(schema.anyOf) = 2
    /\ NamedBranches = {<<2, 2>>}
    /\ returned.extractSchemaName = Chars("Pet")

\* the record was made from an operation without a declared operationId
Synthesized(endpoint) == ~Has(OperationOf(endpoint), "operationId")

\* C22: two distinct operations of one document that both lack a declared
\* operationId never receive the same synthesized identifier.
C22_SynthesizedIdsUnique ==
    Returned =>
        \A i, j \in 1..Len(endpoints) :
            (/\ i # j
             /\ Synthesized(endpoints[i]) /\ Synthesized(endpoints[j])) =>
                endpoints[i].operationId # endpoints[j].operationId

====
